---- MODULE Spec2Model ----
(***************************************************************************)
(* Model of the devops-test CDK application (src/cdk): the four-stage      *)
(* CodePipeline declared by PipelineStack._create_pipeline, the buildspecs *)
(* of its Build, Test and Deploy CodeBuild projects, and the ECS control   *)
(* plane (task-definition registry, service) the Deploy buildspec drives.  *)
(* Before the first execution app.py has built both stacks for one          *)
(* environment name, each resolving its entry of configs/environments.json. *)
(*                                                                         *)
(* A task definition document is a function from JSON keys to values; a    *)
(* task-definition ARN is modelled by its revision number, the index of    *)
(* the document in the registry.  Strings that the buildspecs cut or       *)
(* compose (source versions, tags) are sequences of one-character strings. *)
(***************************************************************************)
EXTENDS Integers, Sequences, FiniteSets, TLC

\* ------------------------------------------------------------------ bounds

\* Pipeline executions started in one behaviour.
MaxExecutions == 2
\* Longest containerDefinitions list of the task definition the service starts with.
MaxContainers == 2
\* desired_count of the service (a value of configs/environments.json).
DesiredCount == 1

\* --------------------------------------------------------------- constants

\* cut -c 1-7
HashLen == 7

\* max_capacity=config["desired_count"] * 3
ScaleFactor == 3

Latest == <<"l", "a", "t", "e", "s", "t">>

\* $AWS_ACCOUNT_ID.dkr.ecr.$AWS_DEFAULT_REGION.amazonaws.com/$IMAGE_REPO_NAME
RepositoryUri == "ecr/devops-app"

\* The stages of the pipeline, in the order of the stages=[...] list.
StageOrder == <<"Source", "Build", "Test", "Deploy">>

Stages == {StageOrder[i] : i \in 1..Len(StageOrder)}

StageIndex(s) == CHOOSE i \in 1..Len(StageOrder) : StageOrder[i] = s

Executions == 1..MaxExecutions

\* The keys the Deploy buildspec pops from the described task definition.
PoppedKeysWithoutRegisteredBy ==
    {"taskDefinitionArn", "revision", "status", "requiresAttributes",
     "placementConstraints", "compatibilities", "registeredAt"}

PoppedKeys ==
    {"taskDefinitionArn", "revision", "status", "requiresAttributes",
     "placementConstraints", "compatibilities", "registeredAt", "registeredBy"}

\* The provider-assigned metadata of a task definition: outputs of
\* registration, present in describe-task-definition's answer.
MetadataKeys ==
    {"taskDefinitionArn", "revision", "status", "requiresAttributes",
     "placementConstraints", "compatibilities", "registeredAt", "registeredBy"}

\* ------------------------------------------------------------------ inputs

\* CODEBUILD_RESOLVED_SOURCE_VERSION: empty, or a commit id longer than the
\* seven characters the tag keeps.
SourceVersions ==
    { <<>>,
      <<"a", "1", "b", "2", "c", "3", "d", "4">> }

\* The commits of the wider specification: the empty version, and two
\* different commits that agree on their first seven characters.
SourceVersionsWide ==
    { <<>>,
      <<"a", "1", "b", "2", "c", "3", "d", "4">>,
      <<"a", "1", "b", "2", "c", "3", "d", "5">> }

\* config["container_name"] of the environment the stacks resolved.
ConfigNames == {"app", "missing"}

\* The names a container of the service's task definition may have: the
\* configured one, which InfrastructureStack gives its container, or
\* another, of a task definition registered from elsewhere.
ContainerNames == ConfigNames \cup {"sidecar"}

\* app.node.try_get_context("env"): unset (None, modelled by the empty
\* string, as falsy as None), a key of the mapping, or a name the mapping
\* does not have.
Contexts == {"", "dev", "prod", "qa"}

\* The keys of configs/environments.json.
ConfigKeys == {"dev", "prod"}

\* f"devops-app-cluster-{self.env_name}": a composed name is the pair of its
\* fixed part and the environment name.
InfraClusterName(env) == <<"devops-app-cluster", env>>

\* f"devops-app-service-{self.env_name}"
InfraServiceName(env) == <<"devops-app-service", env>>

\* The entry of environment k in configs/environments.json: its cluster and
\* service names are those the infrastructure stack gives environment k.
EnvEntry(k, cn) ==
    [container_name |-> cn,
     cluster_name |-> <<"devops-app-cluster", k>>,
     service_name |-> <<"devops-app-service", k>>,
     desired_count |-> DesiredCount]

\* json.load(f) of configs/environments.json.
EnvironmentsJson(cn) == [k \in ConfigKeys |-> EnvEntry(k, cn)]

\* env_name = app.node.try_get_context("env") or "dev"
EnvNameOf(ctx) == IF ctx = "" THEN "dev" ELSE ctx

\* The KeyError of subscripting a dict with a key it does not have.
KeyError == [error |-> "KeyError"]

\* dict.get(key, default)
Get(d, key, default) == IF key \in DOMAIN d THEN d[key] ELSE default

\* config = self.env_configs.get(env_name, self.env_configs["dev"]): the
\* default is evaluated before the lookup, whether or not it is needed.
PipelineResolveFallingBackToProd(env_configs, env_name) ==
    IF "prod" \notin DOMAIN env_configs
    THEN KeyError
    ELSE Get(env_configs, env_name, env_configs["prod"])

PipelineResolve(env_configs, env_name) ==
    IF "dev" \notin DOMAIN env_configs
    THEN KeyError
    ELSE Get(env_configs, env_name, env_configs["dev"])

\* The same line of InfrastructureStack.__init__.
InfraResolve(env_configs, env_name) ==
    IF "dev" \notin DOMAIN env_configs
    THEN KeyError
    ELSE Get(env_configs, env_name, env_configs["dev"])

\* What InfrastructureStack creates for env_name: the cluster and the
\* service, named after env_name, sized by the resolved entry.
InfraStack(env_configs, env_name) ==
    [env_name |-> env_name,
     config |-> InfraResolve(env_configs, env_name),
     cluster_name |-> InfraClusterName(env_name),
     service_name |-> InfraServiceName(env_name)]

NoImage == [repo |-> "", tag |-> <<>>]

NoDoc == [nodoc |-> TRUE]

\* A container entry as InfrastructureStack._create_service adds it: the
\* image is the repository's "latest" tag.
ContainerEntry(n) ==
    [name |-> n,
     image |-> [repo |-> RepositoryUri, tag |-> Latest],
     memory |-> 512,
     environment |-> <<"APP_ENV", "APP_NAME", "APP_REGION", "APP_PORT">>,
     logConfiguration |-> "awslogs",
     portMappings |-> <<3000>>]

\* The task definition the service references before the first execution.
InitialTaskDef(names) ==
    [family |-> "devops-app",
     cpu |-> "256",
     memory |-> "512",
     containerDefinitions |-> [i \in 1..Len(names) |-> ContainerEntry(names[i])]]

NameLists == UNION {[1..n -> ContainerNames] : n \in 1..MaxContainers}

\* The metadata keys describe-task-definition answers with: all of them,
\* or, for a revision registered before the control plane recorded them,
\* all but the registration's time and principal.
MetaChoices ==
    { MetadataKeys,
      MetadataKeys \ {"registeredAt", "registeredBy"} }

\* The subsets of the metadata keys the script must cope with in
\* task-def.json, beyond those: also the identifying three, a lone key, none.
ScriptMetaChoices ==
    MetaChoices \cup
    { {"taskDefinitionArn", "revision", "status"},
      {"registeredBy"},
      {} }

\* ------------------------------------------------------------------- state

VARIABLES
    envName,           \* env_name of app.py, passed to both stacks
    envConfigs,        \* self.env_configs, the loaded mapping
    infra,             \* what the infrastructure stack created
    commits,           \* the commits the configured branch can point at
    config,            \* the environment configuration PipelineStack resolved
    started,           \* pipeline executions started so far
    stageStatus,       \* execution -> stage -> NotStarted|InProgress|Succeeded|Failed
    sourceVersion,     \* execution -> the commit the Source stage resolved
    buildOutput,       \* execution -> imagedefinitions.json of BuildOutput
    testedImage,       \* execution -> the reference the Test stage pulled and ran
    testedBuild,       \* execution -> the build whose image that pull fetched
    bpc,               \* the Build buildspec's next command
    localTags,         \* the repository tags of the Build host's docker image
    bSucceeding,       \* CODEBUILD_BUILD_SUCCEEDING of the Build build
    ecr,               \* tag -> the execution whose build the tag points at
    registry,          \* revision -> registered task definition document
    service,           \* the ECS service
    deploying,         \* the execution the Deploy project is building, or 0
    pc,                \* the Deploy buildspec's next command
    succeeding,        \* CODEBUILD_BUILD_SUCCEEDING of the Deploy build
    IMAGE_URI,         \* shell variables and files of the Deploy build
    TASK_DEFINITION,
    taskDefJson,
    newTaskDefJson,
    NEW_TASK_DEF_ARN,
    inflight,          \* control-plane calls issued and not yet returned
    sequencer,         \* execution -> state of its rollout
    outcome,           \* execution -> how its rollout ended
    calls,             \* execution -> the rollout's calls and their results
    newArn             \* execution -> the revision its registration returned

appVars == <<envName, envConfigs, infra, commits>>

buildVars == <<bpc, localTags, bSucceeding>>

pipeVars == <<appVars, buildVars, config, started, stageStatus, sourceVersion,
              buildOutput, testedImage, testedBuild, ecr>>

ecsVars == <<registry, service>>

scriptVars == <<pc, succeeding, IMAGE_URI, TASK_DEFINITION, taskDefJson,
                newTaskDefJson, NEW_TASK_DEF_ARN, inflight>>

seqVars == <<sequencer, outcome, calls, newArn>>

vars == <<pipeVars, ecsVars, deploying, scriptVars, seqVars>>

Min(a, b) == IF a < b THEN a ELSE b

\* cdk deploy of app.py: both stacks are constructed with the same env_name
\* and load the same mapping.
Synth(ctx, cn) ==
    /\ envName = EnvNameOf(ctx)
    /\ envConfigs = EnvironmentsJson(cn)
    /\ infra = InfraStack(EnvironmentsJson(cn), EnvNameOf(ctx))
    /\ config = PipelineResolve(EnvironmentsJson(cn), EnvNameOf(ctx))

\* The state before the first execution, but for the application's
\* configuration, the branch's commits and the registered task definition.
InitRest ==
    /\ started = 0
    /\ stageStatus = [e \in Executions |-> [s \in Stages |-> "NotStarted"]]
    /\ sourceVersion = [e \in Executions |-> <<>>]
    /\ buildOutput = [e \in Executions |-> <<>>]
    /\ testedImage = [e \in Executions |-> NoImage]
    /\ testedBuild = [e \in Executions |-> 0]
    /\ bpc = "idle"
    /\ localTags = {}
    /\ bSucceeding = TRUE
    /\ ecr = [t \in {} |-> 0]
    /\ service = [taskDefinition |-> 1, desiredCount |-> DesiredCount,
                  runningCount |-> DesiredCount]
    /\ deploying = 0
    /\ pc = "idle"
    /\ succeeding = TRUE
    /\ IMAGE_URI = NoImage
    /\ TASK_DEFINITION = 0
    /\ taskDefJson = NoDoc
    /\ newTaskDefJson = NoDoc
    /\ NEW_TASK_DEF_ARN = 0
    /\ inflight = {}
    /\ sequencer = [e \in Executions |-> "Idle"]
    /\ outcome = [e \in Executions |-> "None"]
    /\ calls = [e \in Executions |-> <<>>]
    /\ newArn = [e \in Executions |-> 0]

\* The default environment and the wider commits.  The service references
\* the task definition the infrastructure stack created: one container,
\* named by the entry the stack resolved.
Init ==
    /\ Synth("", "app")
    /\ commits = SourceVersionsWide
    /\ registry = <<InitialTaskDef(<<infra.config.container_name>>)>>
    /\ InitRest

\* Any environment name.
InitEnv ==
    /\ \E ctx \in Contexts : Synth(ctx, "app")
    /\ commits = SourceVersions
    /\ registry = <<InitialTaskDef(<<infra.config.container_name>>)>>
    /\ InitRest

\* ---------------------------------------------------------------- pipeline

StatusOf(e, s) == stageStatus[e][s]

SetStatus(e, s, v) == [stageStatus EXCEPT ![e][s] = v]

ExecutionFailed(e) == \E s \in Stages : StatusOf(e, s) = "Failed"

ExecutionSucceeded(e) == \A s \in Stages : StatusOf(e, s) = "Succeeded"

ExecutionEnded(e) == ExecutionFailed(e) \/ ExecutionSucceeded(e)

\* A stage holds one execution at a time.
StageBusy(s) == \E o \in Executions : StatusOf(o, s) = "InProgress"

\* The pipeline declares no execution mode, which leaves the default one:
\* an execution waiting before a stage is superseded by a newer execution
\* that has come through the stage before, and goes no further.
Superseded(e, s) ==
    /\ StageIndex(s) > 1
    /\ StatusOf(e, s) = "NotStarted"
    /\ \E n \in Executions :
          n > e /\ StatusOf(n, StageOrder[StageIndex(s) - 1]) = "Succeeded"

\* A stage starts when the stage before it in the list has succeeded.
CanStartStageAfterAnyEnd(e, s) ==
    /\ StageIndex(s) > 1
    /\ StatusOf(e, s) = "NotStarted"
    /\ StatusOf(e, StageOrder[StageIndex(s) - 1]) \in {"Succeeded", "Failed"}
    /\ ~StageBusy(s)
    /\ ~Superseded(e, s)

CanStartStage(e, s) ==
    /\ StageIndex(s) > 1
    /\ StatusOf(e, s) = "NotStarted"
    /\ StatusOf(e, StageOrder[StageIndex(s) - 1]) = "Succeeded"
    /\ ~StageBusy(s)
    /\ ~Superseded(e, s)

\* The GitHub source action's poll finds a change: an execution starts in
\* the Source stage, once the stage is free.
Trigger ==
    /\ started < MaxExecutions
    /\ ~StageBusy("Source")
    /\ started' = started + 1
    /\ stageStatus' = SetStatus(started + 1, "Source", "InProgress")
    /\ UNCHANGED <<appVars, buildVars, config, sourceVersion, buildOutput,
                   testedImage, testedBuild, ecr>>
    /\ UNCHANGED <<ecsVars, deploying, scriptVars, seqVars>>

\* GitHub_Source: the commit of the configured branch becomes SourceOutput.
SourceStage(e) ==
    /\ StatusOf(e, "Source") = "InProgress"
    /\ \E ok \in BOOLEAN :
        IF ok
        THEN \E v \in commits :
                /\ sourceVersion' = [sourceVersion EXCEPT ![e] = v]
                /\ stageStatus' = SetStatus(e, "Source", "Succeeded")
        ELSE /\ stageStatus' = SetStatus(e, "Source", "Failed")
             /\ UNCHANGED sourceVersion
    /\ UNCHANGED <<appVars, buildVars, config, started, buildOutput,
                   testedImage, testedBuild, ecr>>
    /\ UNCHANGED <<ecsVars, deploying, scriptVars, seqVars>>

\* The pipeline moves an execution into its next stage.  Entering Build or
\* Deploy starts a build of the stage's project.
StartStage(e, s) ==
    /\ CanStartStage(e, s)
    /\ stageStatus' = SetStatus(e, s, "InProgress")
    /\ IF s = "Deploy"
       THEN /\ deploying' = e
            /\ pc' = "pre_build"
            /\ succeeding' = TRUE
       ELSE UNCHANGED <<deploying, pc, succeeding>>
    /\ IF s = "Build"
       THEN /\ bpc' = "pre_build"
            /\ localTags' = {}
            /\ bSucceeding' = TRUE
       ELSE UNCHANGED buildVars
    /\ UNCHANGED <<appVars, config, started, sourceVersion, buildOutput,
                   testedImage, testedBuild, ecr>>
    /\ UNCHANGED <<ecsVars, seqVars>>
    /\ UNCHANGED <<IMAGE_URI, TASK_DEFINITION, taskDefJson, newTaskDefJson,
                   NEW_TASK_DEF_ARN, inflight>>

\* cut -c lo-hi
CutC(str, lo, hi) == SubSeq(str, lo, Min(hi, Len(str)))

\* COMMIT_HASH=$(echo $CODEBUILD_RESOLVED_SOURCE_VERSION | cut -c 1-7)
CommitHashSixChars(version) == CutC(version, 1, HashLen - 1)

CommitHash(version) == CutC(version, 1, HashLen)

\* IMAGE_TAG=${COMMIT_HASH:=latest}
ImageTag(version) ==
    IF CommitHash(version) = <<>> THEN Latest ELSE CommitHash(version)

\* $REPOSITORY_URI:$IMAGE_TAG
ImageUriOf(version) == [repo |-> RepositoryUri, tag |-> ImageTag(version)]

\* printf '[{"name":"<container_name>","imageUri":"%s"}]' ... > imagedefinitions.json
WriteManifest(name, uri) == << [name |-> name, imageUri |-> uri] >>

\* json.load(sys.stdin)[0]['imageUri']
ReadImageUri(manifest) == manifest[1].imageUri

\* docker push $REPOSITORY_URI:$IMAGE_TAG; docker push $REPOSITORY_URI:latest
Push(repo, tags, e) ==
    [t \in (DOMAIN repo) \cup tags |-> IF t \in tags THEN e ELSE repo[t]]

\* The Build build of execution e ends: the Build stage takes its result.
\* The artifact reaches the pipeline only from a build that succeeded.
EndBuild(e, ok) ==
    /\ stageStatus' = SetStatus(e, "Build", IF ok THEN "Succeeded" ELSE "Failed")
    /\ buildOutput' = [buildOutput EXCEPT ![e] =
            IF ok
            THEN WriteManifest(config.container_name, ImageUriOf(sourceVersion[e]))
            ELSE @]
    /\ bpc' = "idle"
    /\ localTags' = {}
    /\ bSucceeding' = TRUE

\* Build_Docker_Image, pre_build and build: a failing pre_build command
\* (the registry login) ends the build; of the build phase's docker build,
\* docker tag ...:$IMAGE_TAG and docker tag ...:latest the first n succeed,
\* a failing one skips the rest, and post_build runs in either case.
BuildPhase(e) ==
    /\ StatusOf(e, "Build") = "InProgress" /\ bpc = "pre_build"
    /\ \E login \in BOOLEAN, n \in 0..3 :
        IF login
        THEN /\ localTags' = (IF n >= 2 THEN {ImageTag(sourceVersion[e])} ELSE {})
                                \cup (IF n >= 3 THEN {Latest} ELSE {})
             /\ bSucceeding' = (n = 3)
             /\ bpc' = "push_tag"
             /\ UNCHANGED <<stageStatus, buildOutput>>
        ELSE EndBuild(e, FALSE)
    /\ UNCHANGED <<appVars, config, started, sourceVersion, testedImage, testedBuild, ecr>>
    /\ UNCHANGED <<ecsVars, deploying, scriptVars, seqVars>>

\* post_build: docker push $REPOSITORY_URI:$IMAGE_TAG.  The push fails when
\* the host has no image of that tag, or for the registry's reasons; a
\* failing command ends post_build and the build.
PushTag(e) ==
    /\ StatusOf(e, "Build") = "InProgress" /\ bpc = "push_tag"
    /\ \E ok \in BOOLEAN :
        IF ok /\ ImageTag(sourceVersion[e]) \in localTags
        THEN /\ ecr' = Push(ecr, {ImageTag(sourceVersion[e])}, e)
             /\ bpc' = "push_latest"
             /\ UNCHANGED <<stageStatus, buildOutput, localTags, bSucceeding>>
        ELSE /\ EndBuild(e, FALSE)
             /\ UNCHANGED ecr
    /\ UNCHANGED <<appVars, config, started, sourceVersion, testedImage, testedBuild>>
    /\ UNCHANGED <<ecsVars, deploying, scriptVars, seqVars>>

\* post_build: docker push $REPOSITORY_URI:latest.
PushLatest(e) ==
    /\ StatusOf(e, "Build") = "InProgress" /\ bpc = "push_latest"
    /\ \E ok \in BOOLEAN :
        IF ok /\ Latest \in localTags
        THEN /\ ecr' = Push(ecr, {Latest}, e)
             /\ bpc' = "imagedefinitions"
             /\ UNCHANGED <<stageStatus, buildOutput, localTags, bSucceeding>>
        ELSE /\ EndBuild(e, FALSE)
             /\ UNCHANGED ecr
    /\ UNCHANGED <<appVars, config, started, sourceVersion, testedImage, testedBuild>>
    /\ UNCHANGED <<ecsVars, deploying, scriptVars, seqVars>>

\* post_build: the printf that writes imagedefinitions.json, and cat; the
\* build ends and uploads the artifact.
WriteImageDefinitions(e) ==
    /\ StatusOf(e, "Build") = "InProgress" /\ bpc = "imagedefinitions"
    /\ EndBuild(e, bSucceeding)
    /\ UNCHANGED <<appVars, config, started, sourceVersion, testedImage, testedBuild, ecr>>
    /\ UNCHANGED <<ecsVars, deploying, scriptVars, seqVars>>

\* Run_Tests, pre_build: the Test project's buildspec reads the manifest's
\* imageUri and pulls it; the host then holds the image the tag points at
\* when it is pulled.  A failing pull ends the build.
PullImage(e) ==
    /\ StatusOf(e, "Test") = "InProgress" /\ testedImage[e] = NoImage
    /\ \E pulled \in BOOLEAN :
        IF pulled
        THEN /\ testedImage' = [testedImage EXCEPT ![e] = ReadImageUri(buildOutput[e])]
             /\ testedBuild' = [testedBuild EXCEPT ![e] =
                    ecr[ReadImageUri(buildOutput[e]).tag]]
             /\ UNCHANGED stageStatus
        ELSE /\ stageStatus' = SetStatus(e, "Test", "Failed")
             /\ UNCHANGED <<testedImage, testedBuild>>
    /\ UNCHANGED <<appVars, buildVars, config, started, sourceVersion, buildOutput, ecr>>
    /\ UNCHANGED <<ecsVars, deploying, scriptVars, seqVars>>

\* Run_Tests, build: docker run --rm $IMAGE_URI poetry run pytest -s, in
\* the image the host pulled; the Test stage takes the result.
RunTests(e) ==
    /\ StatusOf(e, "Test") = "InProgress" /\ testedImage[e] # NoImage
    /\ \E pass \in BOOLEAN :
        stageStatus' = SetStatus(e, "Test", IF pass THEN "Succeeded" ELSE "Failed")
    /\ UNCHANGED <<appVars, buildVars, config, started, sourceVersion, buildOutput,
                   testedImage, testedBuild, ecr>>
    /\ UNCHANGED <<ecsVars, deploying, scriptVars, seqVars>>

\* ------------------------------------------------------------ control plane

\* The value the control plane gives a metadata key of revision rev.
MetaValue(k, rev) ==
    CASE k = "taskDefinitionArn" -> rev
      [] k = "revision" -> rev
      [] k = "status" -> "ACTIVE"
      [] k = "requiresAttributes" -> <<"ecs.capability.task-eni">>
      [] k = "placementConstraints" -> <<>>
      [] k = "compatibilities" -> <<"EC2", "FARGATE">>
      [] k = "registeredAt" -> rev
      [] k = "registeredBy" -> "arn:deploy-role"

\* aws ecs describe-task-definition --query 'taskDefinition': the registered
\* document with the metadata keys in M added.
DescribeDoc(rev, M) ==
    [k \in (DOMAIN registry[rev]) \cup M |->
        IF k \in M THEN MetaValue(k, rev) ELSE registry[rev][k]]

\* register-task-definition --cli-input-json refuses a document carrying a
\* key that is not an input of registration.
ProviderAcceptsDocument(doc) ==
    /\ (DOMAIN doc) \cap MetadataKeys = {}
    /\ "containerDefinitions" \in DOMAIN doc
    /\ Len(doc["containerDefinitions"]) >= 1

ServiceStable == service.runningCount = service.desiredCount

\* auto_scale_task_count(min_capacity=config["desired_count"],
\*                       max_capacity=config["desired_count"] * 3)
MinCapacity == DesiredCount

MaxCapacity == DesiredCount * ScaleFactor

\* scale_on_cpu_utilization, scale_on_memory_utilization: target tracking
\* sets the service's desired count to another value of the range.
AutoScale ==
    /\ \E d \in MinCapacity..MaxCapacity :
        /\ d # service.desiredCount
        /\ service' = [service EXCEPT !.desiredCount = d]
    /\ UNCHANGED <<pipeVars, registry, deploying, scriptVars, seqVars>>

\* The service starts one more task of the task definition it references:
\* its rolling replacement, or a scale-out.
ProviderStartsTask ==
    /\ service.runningCount < service.desiredCount
    /\ service' = [service EXCEPT !.runningCount = @ + 1]
    /\ UNCHANGED <<pipeVars, registry, deploying, scriptVars, seqVars>>

\* The service stops a task it runs beyond its desired count: a scale-in.
ProviderStopsTask ==
    /\ service.runningCount > service.desiredCount
    /\ service' = [service EXCEPT !.runningCount = @ - 1]
    /\ UNCHANGED <<pipeVars, registry, deploying, scriptVars, seqVars>>

\* ----------------------------------------------------------- Deploy project

\* td['containerDefinitions'][0]['image'] = '$IMAGE_URI'
SetKey(obj, key, value) ==
    [k \in (DOMAIN obj) \cup {key} |-> IF k = key THEN value ELSE obj[k]]

SubstituteImage(td, image) ==
    [td EXCEPT !["containerDefinitions"] =
        [@ EXCEPT ![1] = SetKey(@, "image", image)]]

\* [td.pop(k, None) for k in [...]]
PopKeys(td, keys) == [k \in (DOMAIN td) \ keys |-> td[k]]

\* The python3 -c one-liner: task-def.json -> new-task-def.json.
MigrateDoc(td, image) == PopKeys(SubstituteImage(td, image), PoppedKeys)

\* A failing command of the build phase ends the phase: the commands after
\* it are skipped and the build goes on to post_build as failed.
FailBuildPhase ==
    /\ pc' = "post_build"
    /\ succeeding' = FALSE

Log(e, entry) == [calls EXCEPT ![e] = Append(@, entry)]

\* pre_build: IMAGE_URI=$(cat imagedefinitions.json | python3 -c ...)
DeployPreBuild(e) ==
    /\ deploying = e /\ pc = "pre_build"
    /\ IMAGE_URI' = ReadImageUri(buildOutput[e])
    /\ pc' = "describe_services"
    /\ UNCHANGED <<pipeVars, ecsVars, deploying, seqVars>>
    /\ UNCHANGED <<succeeding, TASK_DEFINITION, taskDefJson, newTaskDefJson,
                   NEW_TASK_DEF_ARN, inflight>>

\* TASK_DEFINITION=$(aws ecs describe-services ... 'services[0].taskDefinition')
DescribeServices(e) ==
    /\ deploying = e /\ pc = "describe_services"
    /\ \E ok \in BOOLEAN :
        IF ok
        THEN /\ TASK_DEFINITION' = service.taskDefinition
             /\ pc' = "describe_task_definition"
             /\ UNCHANGED succeeding
        ELSE /\ FailBuildPhase
             /\ UNCHANGED TASK_DEFINITION
    /\ UNCHANGED <<pipeVars, ecsVars, deploying, seqVars>>
    /\ UNCHANGED <<IMAGE_URI, taskDefJson, newTaskDefJson, NEW_TASK_DEF_ARN, inflight>>

\* aws ecs describe-task-definition ... > task-def.json
DescribeTaskDefinition(e) ==
    /\ deploying = e /\ pc = "describe_task_definition"
    /\ \E ok \in BOOLEAN :
        IF ok
        THEN /\ \E M \in MetaChoices : taskDefJson' = DescribeDoc(TASK_DEFINITION, M)
             /\ pc' = "migrate"
             /\ UNCHANGED succeeding
        ELSE /\ FailBuildPhase
             /\ UNCHANGED taskDefJson
    /\ UNCHANGED <<pipeVars, ecsVars, deploying, seqVars>>
    /\ UNCHANGED <<IMAGE_URI, TASK_DEFINITION, newTaskDefJson, NEW_TASK_DEF_ARN, inflight>>

\* python3 -c "... json.dump(td, open('new-task-def.json', 'w'), indent=2)"
Migrate(e) ==
    /\ deploying = e /\ pc = "migrate"
    /\ newTaskDefJson' = MigrateDoc(taskDefJson, IMAGE_URI)
    /\ pc' = "register"
    /\ UNCHANGED <<pipeVars, ecsVars, deploying, seqVars>>
    /\ UNCHANGED <<succeeding, IMAGE_URI, TASK_DEFINITION, taskDefJson,
                   NEW_TASK_DEF_ARN, inflight>>

\* aws ecs register-task-definition --cli-input-json file://new-task-def.json
RegisterCall(e) ==
    /\ deploying = e /\ pc = "register"
    /\ inflight' = inflight \cup {"register"}
    /\ sequencer' = [sequencer EXCEPT ![e] = "Registering"]
    /\ calls' = Log(e, "register:call")
    /\ pc' = "registering"
    /\ UNCHANGED <<pipeVars, ecsVars, deploying, outcome, newArn>>
    /\ UNCHANGED <<succeeding, IMAGE_URI, TASK_DEFINITION, taskDefJson,
                   newTaskDefJson, NEW_TASK_DEF_ARN>>

\* The rollout of execution e ends Failed with the given outcome.
RolloutFails(e, why, entry) ==
    /\ sequencer' = [sequencer EXCEPT ![e] = "Failed"]
    /\ outcome' = [outcome EXCEPT ![e] = why]
    /\ calls' = Log(e, entry)
    /\ FailBuildPhase

\* A rejected registration whose exit status is ignored: the script goes on.
RegisterReturnIgnoringRejection(e) ==
    /\ deploying = e /\ pc = "registering"
    /\ inflight' = inflight \ {"register"}
    /\ \E accept \in BOOLEAN :
        IF accept /\ ProviderAcceptsDocument(newTaskDefJson)
        THEN /\ registry' = Append(registry, newTaskDefJson)
             /\ NEW_TASK_DEF_ARN' = Len(registry) + 1
             /\ newArn' = [newArn EXCEPT ![e] = Len(registry) + 1]
             /\ calls' = Log(e, "register:ok")
             /\ pc' = "update"
             /\ UNCHANGED <<succeeding, sequencer, outcome>>
        ELSE /\ calls' = Log(e, "register:rejected")
             /\ pc' = "update"
             /\ UNCHANGED <<registry, NEW_TASK_DEF_ARN, newArn, succeeding,
                            sequencer, outcome>>
    /\ UNCHANGED <<pipeVars, service, deploying>>
    /\ UNCHANGED <<IMAGE_URI, TASK_DEFINITION, taskDefJson, newTaskDefJson>>

\* NEW_TASK_DEF_ARN=$(... --query 'taskDefinition.taskDefinitionArn' --output text):
\* the control plane stores the document as a new revision and answers its
\* ARN, or rejects the call, which fails the command.
RegisterReturn(e) ==
    /\ deploying = e /\ pc = "registering"
    /\ inflight' = inflight \ {"register"}
    /\ \E accept \in BOOLEAN :
        IF accept /\ ProviderAcceptsDocument(newTaskDefJson)
        THEN /\ registry' = Append(registry, newTaskDefJson)
             /\ NEW_TASK_DEF_ARN' = Len(registry) + 1
             /\ newArn' = [newArn EXCEPT ![e] = Len(registry) + 1]
             /\ calls' = Log(e, "register:ok")
             /\ pc' = "update"
             /\ UNCHANGED <<succeeding, sequencer, outcome>>
        ELSE /\ RolloutFails(e, "RolloutRejected", "register:rejected")
             /\ UNCHANGED <<registry, NEW_TASK_DEF_ARN, newArn>>
    /\ UNCHANGED <<pipeVars, service, deploying>>
    /\ UNCHANGED <<IMAGE_URI, TASK_DEFINITION, taskDefJson, newTaskDefJson>>

\* update-service issued without waiting for the registration to return.
UpdateCallWithoutWaiting(e) ==
    /\ deploying = e /\ pc \in {"registering", "update"}
    /\ inflight' = inflight \cup {"update"}
    /\ sequencer' = [sequencer EXCEPT ![e] = "Updating"]
    /\ calls' = Log(e, "update:call")
    /\ pc' = "updating"
    /\ UNCHANGED <<pipeVars, ecsVars, deploying, outcome, newArn>>
    /\ UNCHANGED <<succeeding, IMAGE_URI, TASK_DEFINITION, taskDefJson,
                   newTaskDefJson, NEW_TASK_DEF_ARN>>

\* aws ecs update-service --cluster ... --service ... --task-definition $NEW_TASK_DEF_ARN
UpdateCall(e) ==
    /\ deploying = e /\ pc = "update"
    /\ inflight' = inflight \cup {"update"}
    /\ sequencer' = [sequencer EXCEPT ![e] = "Updating"]
    /\ calls' = Log(e, "update:call")
    /\ pc' = "updating"
    /\ UNCHANGED <<pipeVars, ecsVars, deploying, outcome, newArn>>
    /\ UNCHANGED <<succeeding, IMAGE_URI, TASK_DEFINITION, taskDefJson,
                   newTaskDefJson, NEW_TASK_DEF_ARN>>

\* The control plane points the service at the revision, which starts a new
\* deployment with no task of it running yet, or rejects the call.
UpdateReturn(e) ==
    /\ deploying = e /\ pc = "updating"
    /\ inflight' = inflight \ {"update"}
    /\ \E accept \in BOOLEAN :
        IF accept /\ NEW_TASK_DEF_ARN \in DOMAIN registry
        THEN /\ service' = [service EXCEPT !.taskDefinition = NEW_TASK_DEF_ARN,
                                           !.runningCount = 0]
             /\ calls' = Log(e, "update:ok")
             /\ pc' = "wait"
             /\ UNCHANGED <<succeeding, sequencer, outcome>>
        ELSE /\ RolloutFails(e, "RolloutRejected", "update:rejected")
             /\ UNCHANGED service
    /\ UNCHANGED <<pipeVars, registry, deploying, newArn>>
    /\ UNCHANGED <<IMAGE_URI, TASK_DEFINITION, taskDefJson, newTaskDefJson,
                   NEW_TASK_DEF_ARN>>

\* aws ecs wait services-stable --cluster ... --services ...
WaitCall(e) ==
    /\ deploying = e /\ pc = "wait"
    /\ inflight' = inflight \cup {"wait"}
    /\ sequencer' = [sequencer EXCEPT ![e] = "WaitingForStable"]
    /\ calls' = Log(e, "wait:call")
    /\ pc' = "waiting"
    /\ UNCHANGED <<pipeVars, ecsVars, deploying, outcome, newArn>>
    /\ UNCHANGED <<succeeding, IMAGE_URI, TASK_DEFINITION, taskDefJson,
                   newTaskDefJson, NEW_TASK_DEF_ARN>>

\* The waiter sees the service at its desired count and exits 0.
WaitReturnStable(e) ==
    /\ deploying = e /\ pc = "waiting"
    /\ ServiceStable
    /\ inflight' = inflight \ {"wait"}
    /\ sequencer' = [sequencer EXCEPT ![e] = "Stable"]
    /\ outcome' = [outcome EXCEPT ![e] = "Stable"]
    /\ calls' = Log(e, "wait:stable")
    /\ pc' = "post_build"
    /\ UNCHANGED <<pipeVars, ecsVars, deploying, newArn>>
    /\ UNCHANGED <<succeeding, IMAGE_URI, TASK_DEFINITION, taskDefJson,
                   newTaskDefJson, NEW_TASK_DEF_ARN>>

\* A waiter that undoes the update when it gives up.
WaitReturnTimeoutRollingBack(e) ==
    /\ deploying = e /\ pc = "waiting"
    /\ ~ServiceStable
    /\ inflight' = inflight \ {"wait"}
    /\ RolloutFails(e, "RolloutTimeout", "wait:timeout")
    /\ service' = [service EXCEPT !.taskDefinition = TASK_DEFINITION]
    /\ UNCHANGED <<pipeVars, registry, deploying, newArn>>
    /\ UNCHANGED <<IMAGE_URI, TASK_DEFINITION, taskDefJson, newTaskDefJson,
                   NEW_TASK_DEF_ARN>>

\* The waiter gives up after its last check found the service short of its
\* desired count, and exits non-zero.  Nothing else happens: the build
\* phase has no further command.
WaitReturnTimeout(e) ==
    /\ deploying = e /\ pc = "waiting"
    /\ ~ServiceStable
    /\ inflight' = inflight \ {"wait"}
    /\ RolloutFails(e, "RolloutTimeout", "wait:timeout")
    /\ UNCHANGED <<pipeVars, ecsVars, deploying, newArn>>
    /\ UNCHANGED <<IMAGE_URI, TASK_DEFINITION, taskDefJson, newTaskDefJson,
                   NEW_TASK_DEF_ARN>>

\* The waiter is answered a terminal failure and exits non-zero.
WaitReturnTerminalFailure(e) ==
    /\ deploying = e /\ pc = "waiting"
    /\ inflight' = inflight \ {"wait"}
    /\ RolloutFails(e, "TerminalFailure", "wait:failed")
    /\ UNCHANGED <<pipeVars, ecsVars, deploying, newArn>>
    /\ UNCHANGED <<IMAGE_URI, TASK_DEFINITION, taskDefJson, newTaskDefJson,
                   NEW_TASK_DEF_ARN>>

\* post_build: two echo commands, run whether or not the build phase
\* failed; then the build ends and the Deploy stage takes its result.
PostBuild(e) ==
    /\ deploying = e /\ pc = "post_build"
    /\ stageStatus' = SetStatus(e, "Deploy", IF succeeding THEN "Succeeded" ELSE "Failed")
    /\ deploying' = 0
    /\ pc' = "idle"
    /\ succeeding' = TRUE
    /\ IMAGE_URI' = NoImage
    /\ TASK_DEFINITION' = 0
    /\ taskDefJson' = NoDoc
    /\ newTaskDefJson' = NoDoc
    /\ NEW_TASK_DEF_ARN' = 0
    /\ UNCHANGED <<appVars, buildVars, config, started, sourceVersion, buildOutput,
                   testedImage, testedBuild, ecr>>
    /\ UNCHANGED <<ecsVars, inflight, seqVars>>

\* ------------------------------------------------------------ specification

Next ==
    \/ Trigger
    \/ AutoScale
    \/ ProviderStartsTask
    \/ ProviderStopsTask
    \/ \E e \in Executions :
        \/ SourceStage(e)
        \/ \E s \in Stages : StartStage(e, s)
        \/ BuildPhase(e)
        \/ PushTag(e)
        \/ PushLatest(e)
        \/ WriteImageDefinitions(e)
        \/ PullImage(e)
        \/ RunTests(e)
        \/ DeployPreBuild(e)
        \/ DescribeServices(e)
        \/ DescribeTaskDefinition(e)
        \/ Migrate(e)
        \/ RegisterCall(e)
        \/ RegisterReturn(e)
        \/ UpdateCall(e)
        \/ UpdateReturn(e)
        \/ WaitCall(e)
        \/ WaitReturnStable(e)
        \/ WaitReturnTimeout(e)
        \/ WaitReturnTerminalFailure(e)
        \/ PostBuild(e)

Spec == Init /\ [][Next]_vars

SpecEnv == InitEnv /\ [][Next]_vars

\* The Deploy script as a function of its inputs.  Execution 1 has come
\* through Source, Build and Test and its Deploy build stands before the
\* python3 one-liner; task-def.json is any document the service's task
\* definition may be (the registry takes registrations from anyone, not
\* only from this pipeline), the manifest carries the configured name.
InitScript ==
    /\ \E cn \in ConfigNames : Synth("", cn)
    /\ commits = SourceVersions
    /\ \E names \in NameLists : registry = <<InitialTaskDef(names)>>
    /\ \E M \in ScriptMetaChoices : taskDefJson = DescribeDoc(1, M)
    /\ \E v \in SourceVersions :
          /\ sourceVersion = [e \in Executions |-> IF e = 1 THEN v ELSE <<>>]
          /\ buildOutput = [e \in Executions |->
                IF e = 1 THEN WriteManifest(config.container_name, ImageUriOf(v)) ELSE <<>>]
          /\ testedImage = [e \in Executions |-> IF e = 1 THEN ImageUriOf(v) ELSE NoImage]
          /\ ecr = Push([t \in {} |-> 0], {ImageTag(v), Latest}, 1)
          /\ IMAGE_URI = ImageUriOf(v)
    /\ testedBuild = [e \in Executions |-> IF e = 1 THEN 1 ELSE 0]
    /\ started = 1
    /\ stageStatus = [e \in Executions |-> [s \in Stages |->
            IF e # 1 THEN "NotStarted"
            ELSE IF s = "Deploy" THEN "InProgress" ELSE "Succeeded"]]
    /\ bpc = "idle"
    /\ localTags = {}
    /\ bSucceeding = TRUE
    /\ service = [taskDefinition |-> 1, desiredCount |-> DesiredCount,
                  runningCount |-> DesiredCount]
    /\ deploying = 1
    /\ pc = "migrate"
    /\ succeeding = TRUE
    /\ TASK_DEFINITION = 1
    /\ newTaskDefJson = NoDoc
    /\ NEW_TASK_DEF_ARN = 0
    /\ inflight = {}
    /\ sequencer = [e \in Executions |-> "Idle"]
    /\ outcome = [e \in Executions |-> "None"]
    /\ calls = [e \in Executions |-> <<>>]
    /\ newArn = [e \in Executions |-> 0]

\* The one-liner, and the registration of what it wrote.
NextScript ==
    \E e \in Executions :
        \/ Migrate(e)
        \/ RegisterCall(e)
        \/ RegisterReturn(e)

SpecScript == InitScript /\ [][NextScript]_vars

\* ------------------------------------------------------------------ claims

\* The name the manifest of execution e carries: the containerName of the
\* migration that execution's Deploy build performs.
ManifestName(e) == buildOutput[e][1].name

\* The positions of the container entries of cds named n.
Matches(cds, n) == {i \in 1..Len(cds) : cds[i].name = n}

\* The Deploy build of execution e has written new-task-def.json.
HasMigrated(e) == deploying = e /\ taskDefJson # NoDoc /\ newTaskDefJson # NoDoc

\* C1: when exactly one container entry of the described task definition
\* has the manifest's name, at whatever position, the migrated document has
\* as many entries, that entry's image is the new image, and every other
\* entry is unchanged.
C1_NamedContainerGetsImage ==
    \A e \in Executions :
        HasMigrated(e) =>
            LET cds == taskDefJson["containerDefinitions"]
                out == newTaskDefJson["containerDefinitions"]
                m == Matches(cds, ManifestName(e))
            IN  Cardinality(m) = 1 =>
                    /\ Len(out) = Len(cds)
                    /\ \A i \in 1..Len(cds) :
                        out[i] = IF i \in m
                                 THEN [cds[i] EXCEPT !["image"] = IMAGE_URI]
                                 ELSE cds[i]

\* C2: when no container entry of the described task definition has the
\* manifest's name, the migration fails: no new document is written, no
\* registration or update call is issued and the service keeps its task
\* definition.
C2_NoMatchNoRollout ==
    \A e \in Executions :
        (/\ deploying = e
         /\ taskDefJson # NoDoc
         /\ pc \notin {"pre_build", "describe_services", "describe_task_definition", "migrate"}
         /\ Matches(taskDefJson["containerDefinitions"], ManifestName(e)) = {})
        => /\ newTaskDefJson = NoDoc
           /\ calls[e] = <<>>
           /\ service.taskDefinition = TASK_DEFINITION

\* C3: the migrated document, and so every document submitted to and stored
\* by registration, carries none of the provider-assigned metadata keys,
\* whichever of them the described document carried.
C3_NoProviderMetadata ==
    /\ newTaskDefJson # NoDoc => (DOMAIN newTaskDefJson) \cap MetadataKeys = {}
    /\ \A rev \in DOMAIN registry : (DOMAIN registry[rev]) \cap MetadataKeys = {}

\* A registration has stored the migration of a described document that
\* carried all eight metadata keys.
C3_Witness ==
    \E e \in Executions :
        /\ HasMigrated(e)
        /\ MetadataKeys \subseteq DOMAIN taskDefJson
        /\ newArn[e] \in DOMAIN registry
        /\ registry[newArn[e]] = newTaskDefJson

\* C4: when exactly one container entry has the manifest's name, the
\* migrated document differs from the described one only in that entry's
\* image and in the removed metadata keys: every other top-level key and
\* every other field of every container entry keeps its value.
C4_OnlyNamedImageDiffers ==
    \A e \in Executions :
        HasMigrated(e) =>
            LET cds == taskDefJson["containerDefinitions"]
                out == newTaskDefJson["containerDefinitions"]
                m == Matches(cds, ManifestName(e))
            IN  Cardinality(m) = 1 =>
                    /\ DOMAIN newTaskDefJson = (DOMAIN taskDefJson) \ MetadataKeys
                    /\ \A k \in (DOMAIN newTaskDefJson) \ {"containerDefinitions"} :
                        newTaskDefJson[k] = taskDefJson[k]
                    /\ Len(out) = Len(cds)
                    /\ \A i \in 1..Len(cds) :
                        /\ DOMAIN out[i] = DOMAIN cds[i]
                        /\ \A f \in DOMAIN cds[i] :
                            (f = "image" /\ i \in m) \/ out[i][f] = cds[i][f]

IsPrefix(a, b) == Len(a) <= Len(b) /\ SubSeq(b, 1, Len(a)) = a

Contains(log, entry) == \E i \in 1..Len(log) : log[i] = entry

\* The complete logs of a rollout: the calls in order, each returned before
\* the next is issued, ended by Stable or by the first failure.
CompleteLogs ==
    { <<"register:call", "register:ok", "update:call", "update:ok", "wait:call", "wait:stable">>,
      <<"register:call", "register:ok", "update:call", "update:ok", "wait:call", "wait:timeout">>,
      <<"register:call", "register:ok", "update:call", "update:ok", "wait:call", "wait:failed">>,
      <<"register:call", "register:ok", "update:call", "update:rejected">>,
      <<"register:call", "register:rejected">> }

Rank(state) ==
    CASE state = "Idle" -> 0
      [] state = "Registering" -> 1
      [] state = "Updating" -> 2
      [] state = "WaitingForStable" -> 3
      [] state \in {"Stable", "Failed"} -> 4

\* C5: a rollout's calls follow the order register, update, wait: its log
\* is a prefix of a complete log, so update-service is issued only after
\* the registration returned a revision and the wait only after the update
\* returned; at most one call is in flight; the sequencer's state never
\* moves backwards, moves one state at a time or to Failed, and never
\* leaves Stable or Failed.
C5_SequencerOrder ==
    /\ [](\A e \in Executions :
            /\ \E full \in CompleteLogs : IsPrefix(calls[e], full)
            /\ Contains(calls[e], "update:call") =>
                  newArn[e] \in DOMAIN registry /\ newArn[e] > 1
            /\ Contains(calls[e], "wait:call") =>
                  Contains(calls[e], "update:ok")
            /\ Cardinality(inflight) <= 1)
    /\ [][\A e \in Executions :
            \/ sequencer'[e] = sequencer[e]
            \/ /\ sequencer[e] \notin {"Stable", "Failed"}
               /\ \/ Rank(sequencer'[e]) = Rank(sequencer[e]) + 1
                  \/ sequencer'[e] = "Failed" /\ sequencer[e] # "Idle"]_vars

\* A rollout went through every state and ended Stable.
C5_Witness ==
    \E e \in Executions :
        /\ sequencer[e] = "Stable"
        /\ calls[e] = <<"register:call", "register:ok", "update:call", "update:ok",
                        "wait:call", "wait:stable">>

\* C6: a rejected register-task-definition or update-service call ends the
\* rollout Failed (RolloutRejected) and fails the Deploy stage; the rejected
\* call is the last of the log: it is not issued again, a rejected
\* registration is followed by no update and no wait and leaves no new
\* revision, a rejected update is followed by no wait and leaves the
\* service on its task definition.
C6_RejectionIsTerminal ==
    \A e \in Executions :
        /\ Contains(calls[e], "register:rejected") =>
              /\ calls[e] = <<"register:call", "register:rejected">>
              /\ newArn[e] = 0
        /\ Contains(calls[e], "update:rejected") =>
              /\ calls[e] = <<"register:call", "register:ok", "update:call", "update:rejected">>
              /\ service.taskDefinition # newArn[e]
        /\ (Contains(calls[e], "register:rejected") \/ Contains(calls[e], "update:rejected")) =>
              /\ sequencer[e] = "Failed"
              /\ outcome[e] = "RolloutRejected"
              /\ IF deploying = e
                 THEN pc = "post_build" /\ ~succeeding /\ inflight = {}
                 ELSE StatusOf(e, "Deploy") = "Failed"

\* One execution's registration was rejected and another's update was, and
\* both Deploy stages have failed.
C6_Witness ==
    \E e1, e2 \in Executions :
        /\ Contains(calls[e1], "register:rejected")
        /\ Contains(calls[e2], "update:rejected")
        /\ StatusOf(e1, "Deploy") = "Failed"
        /\ StatusOf(e2, "Deploy") = "Failed"

\* C9: once a rollout has ended Failed by RolloutTimeout, the revision it
\* registered stays in the registry and the service keeps referencing it
\* (until a later execution's own update-service call is accepted): the
\* Deploy build neither points the service back nor removes the revision.
C9_TimeoutDoesNotRollBack ==
    \A e \in Executions :
        outcome[e] = "RolloutTimeout" =>
            /\ newArn[e] \in DOMAIN registry
            /\ newArn[e] # 1
            /\ \/ service.taskDefinition = newArn[e]
               \/ \E later \in Executions :
                    /\ later > e
                    /\ Contains(calls[later], "update:ok")
                    /\ service.taskDefinition = newArn[later]

\* A Deploy stage has failed by timeout and its build has ended; the
\* service still references the revision that rollout registered.
C9_Witness ==
    \E e \in Executions :
        /\ outcome[e] = "RolloutTimeout"
        /\ StatusOf(e, "Deploy") = "Failed"
        /\ deploying # e
        /\ service.taskDefinition = newArn[e]
        /\ service.runningCount < service.desiredCount

\* C10: in every execution a stage has started only if the stage before it
\* in the order Source, Build, Test, Deploy has succeeded, at most one
\* stage is in progress, no stage after a failed stage ever starts, and an
\* execution whose Build or Test failed starts no Deploy build and issues
\* no control-plane call.
C10_StagesInOrderFailFast ==
    \A e \in Executions :
        /\ \A i \in 2..Len(StageOrder) :
              StatusOf(e, StageOrder[i]) # "NotStarted" =>
                  StatusOf(e, StageOrder[i - 1]) = "Succeeded"
        /\ Cardinality({s \in Stages : StatusOf(e, s) = "InProgress"}) <= 1
        /\ \A i \in 1..Len(StageOrder) :
              StatusOf(e, StageOrder[i]) = "Failed" =>
                  /\ \A j \in (i + 1)..Len(StageOrder) :
                        StatusOf(e, StageOrder[j]) = "NotStarted"
                  /\ ExecutionFailed(e)
        /\ (StatusOf(e, "Build") = "Failed" \/ StatusOf(e, "Test") = "Failed") =>
              /\ deploying # e
              /\ calls[e] = <<>>
              /\ newArn[e] = 0
        /\ (deploying = e \/ calls[e] # <<>>) =>
              \A s \in {"Source", "Build", "Test"} : StatusOf(e, s) = "Succeeded"

\* One execution failed in Test and never started Deploy; another went
\* through all four stages.
C10_Witness ==
    \E e1, e2 \in Executions :
        /\ StatusOf(e1, "Test") = "Failed"
        /\ StatusOf(e1, "Deploy") = "NotStarted"
        /\ ExecutionSucceeded(e2)

\* --------------------------------------------------------------- claim C11

Built(e) == StatusOf(e, "Build") = "Succeeded"

ManifestTag(e) == ReadImageUri(buildOutput[e]).tag

\* Two versions agree on the characters cut -c 1-7 keeps.
SamePrefix(a, b) ==
    \A i \in 1..HashLen :
        /\ (i <= Len(a)) <=> (i <= Len(b))
        /\ (i <= Len(a) /\ i <= Len(b)) => a[i] = b[i]

\* C11, as stated: every build's manifest names a reference of the
\* repository whose tag is not "latest", differs from the tag of every other
\* build and still points at that build's image, next to the "latest" alias.
C11_UniqueImmutableTag ==
    \A e \in Executions :
        Built(e) =>
            /\ ReadImageUri(buildOutput[e]).repo = RepositoryUri
            /\ {ManifestTag(e), Latest} \subseteq DOMAIN ecr
            /\ ManifestTag(e) # Latest
            /\ \A o \in Executions \ {e} : Built(o) => ManifestTag(o) # ManifestTag(e)
            /\ ecr[ManifestTag(e)] = e

\* C11, amended: every build that succeeded has pushed the "latest" alias
\* and the reference its manifest names.  For a non-empty source version
\* the tag is the version's first seven characters and is not "latest"; for
\* the empty version the tag is "latest" itself.  Two builds have the same
\* tag exactly when their versions agree on the first seven characters,
\* and a tag points at the image of that build or of a later one.
C11_TagIsCommitPrefix ==
    \A e \in Executions :
        Built(e) =>
            LET v == sourceVersion[e]
                t == ManifestTag(e)
            IN  /\ ReadImageUri(buildOutput[e]).repo = RepositoryUri
                /\ {t, Latest} \subseteq DOMAIN ecr
                /\ IF v = <<>>
                   THEN t = Latest
                   ELSE /\ Len(t) = Min(Len(v), HashLen)
                        /\ \A i \in 1..Len(t) : t[i] = v[i]
                        /\ t # Latest
                /\ \A o \in Executions :
                        Built(o) => ((ManifestTag(o) = t) <=> SamePrefix(sourceVersion[o], v))
                /\ ecr[t] >= e
                /\ ecr[Latest] >= e

\* Two builds of different commits that share their first seven characters
\* have pushed one tag, and the tag points at the later build.
C11_Witness ==
    \E e, o \in Executions :
        /\ e < o /\ Built(e) /\ Built(o)
        /\ sourceVersion[e] # <<>> /\ sourceVersion[o] # <<>>
        /\ sourceVersion[e] # sourceVersion[o]
        /\ ManifestTag(e) = ManifestTag(o)
        /\ ecr[ManifestTag(e)] = o

\* --------------------------------------------------------------- claim C12

\* C12: the configuration a stack resolved for the environment name is the
\* mapping's entry of that name when the mapping has one, and the "dev"
\* entry, not an error, when it has none; the infrastructure stack and the
\* pipeline stack resolved the same entry.
C12_ConfigResolution ==
    /\ config # KeyError
    /\ envName \in DOMAIN envConfigs => config = envConfigs[envName]
    /\ envName \notin DOMAIN envConfigs => config = envConfigs["dev"]
    /\ infra.config = config

\* Both stacks were built for a name the mapping lacks, the pipeline runs
\* with the "dev" entry.
C12_Witness ==
    /\ envName \notin DOMAIN envConfigs
    /\ config = envConfigs["dev"]
    /\ infra.config = envConfigs["dev"]
    /\ \E e \in Executions : Built(e) /\ ManifestName(e) = envConfigs["dev"].container_name

\* --------------------------------------------------------------- claim C13

\* The image reference of the entry the Deploy script rewrites.
SubstitutedImage(doc) == doc.containerDefinitions[1].image

\* C13: in every execution, the reference the Deploy build read, the one it
\* wrote into new-task-def.json and the one in the revision it registered
\* are the reference the Test stage of that execution pulled and ran, which
\* is the imageUri of that execution's manifest; the Test stage of that
\* execution succeeded; and while the rollout has the service on the new
\* revision, the image that reference pulls is the image Test ran.
C13_DeploysTheTestedImage ==
    \A e \in Executions :
        /\ (deploying = e /\ pc # "pre_build") =>
                /\ StatusOf(e, "Test") = "Succeeded"
                /\ IMAGE_URI = testedImage[e]
                /\ testedImage[e] = buildOutput[e][1].imageUri
                /\ testedImage[e] = ImageUriOf(sourceVersion[e])
        /\ HasMigrated(e) => SubstitutedImage(newTaskDefJson) = testedImage[e]
        /\ newArn[e] # 0 =>
                /\ StatusOf(e, "Test") = "Succeeded"
                /\ SubstitutedImage(registry[newArn[e]]) = testedImage[e]
        /\ (deploying = e /\ Contains(calls[e], "update:ok")) =>
                ecr[SubstitutedImage(registry[newArn[e]]).tag] = testedBuild[e]

\* --------------------------------------------------------------- claim C14

\* --cluster {config['cluster_name']} --service(s) {config['service_name']}:
\* the cluster and service the Deploy buildspec's describe-services,
\* update-service and wait commands address.
DeployTarget == <<config.cluster_name, config.service_name>>

\* The cluster and service the infrastructure stack created.
InfraTarget == <<infra.cluster_name, infra.service_name>>

\* C14: once a Deploy build has run describe-services, the cluster and
\* service its commands address are the ones the infrastructure stack
\* created for the same environment name, devops-app-cluster-E and
\* devops-app-service-E, whether or not the mapping has an entry for E.
C14_DeployTargetsOwnEnvironment ==
    \A e \in Executions :
        (deploying = e /\ pc \notin {"pre_build", "describe_services"}) =>
            /\ infra.env_name = envName
            /\ InfraTarget = <<InfraClusterName(envName), InfraServiceName(envName)>>
            /\ DeployTarget = InfraTarget
====
